---- MODULE Spec2Model ----
(***************************************************************************)
(* bprof: the event-attribution core of src/src/demo.cpp (class Module and *)
(* the classes it aggregates into), driven by a host interpreter that      *)
(* delivers profile and trace notifications through profile_func and       *)
(* trace_func.                                                             *)
(*                                                                         *)
(* Program state: the fields of Module.  Host state: the interpreter's own *)
(* call stack and whether the hooks are installed.  Variables prefixed g_  *)
(* and fields prefixed g_ are history (ghost) values used only by the      *)
(* properties; no handler reads them.                                      *)
(***************************************************************************)
EXTENDS Integers, Sequences, FiniteSets, TLC

\* ------------------------------------------------------------------ bounds
MaxTime == 7      \* clock readings range over 0..MaxTime
MergeMax == 1     \* a completed frame's line values range over 0..MergeMax
MaxDepth == 2     \* host call-stack depth (python and native frames)

\* the clock advances by one of these between two notifications
Gaps == {1, 2}

\* size_t arithmetic is modulo 2^64; the model keeps the wrap-around with a
\* modulus far above every vector size that occurs.
SizeModulus == 1048576

\* --------------------------------------------------------------- host data
Codes == {"f", "g"}
ModuleCode == "m"

\* inspect.getsourcelines(code): (ordered line texts, starting line number)
\* and the lines that carry code (a def line carries none; the first line of
\* a one-line def, a lambda or a class body does)
Source ==
  [f |-> [start |-> 1, text |-> <<"def f():", "f2", "f3">>, exec |-> {2, 3}],
   g |-> [start |-> 4, text |-> <<"class g: g4", "g5">>, exec |-> {4, 5}],
   m |-> [start |-> 1, text |-> <<"m1", "m2">>, exec |-> {2}]]

\* the line numbers PyFrame_GetLineNumber can report for a frame of the code
LineNumbers(code) == Source[code].exec

AllLines == UNION {LineNumbers(c) : c \in Codes \cup {ModuleCode}}

\* native callables (the arg of PyTrace_C_CALL): __module__, __qualname__;
\* module_methods makes start, stop and dump native callables of _bprof
Builtin == [module |-> "builtins", qualname |-> "len"]
Method(name) == [module |-> "_bprof", qualname |-> name]
NativeCallables == {Builtin, Method("stop")}

\* The profiled program: which callables the code of a python frame calls,
\* which native callables it calls (stop() is called from inside f, start()
\* and dump() only while no hook is installed), and which python callable
\* the builtin calls back.
PyCalls == [f |-> {"f", "g"}, g |-> {}, m |-> {"f"}]
CCalls == [f |-> {Builtin, Method("stop")}, g |-> {Builtin}, m |-> {Builtin}]
Callbacks == {"g"}

ProfileWhats ==
  {"PyTrace_CALL", "PyTrace_RETURN", "PyTrace_C_CALL",
   "PyTrace_C_EXCEPTION", "PyTrace_C_RETURN"}

NoArg == [module |-> "", qualname |-> ""]
UBChoices == {"crash", "continue"}

\* ------------------------------------------------------------------- state
VARIABLES
  functions_,              \* Module::functions_   : code -> Function
  c_functions_,            \* Module::c_functions_ : name -> BaseFunction
  frame_stack_,            \* Module::frame_stack_ : Seq(FrameState), top last
  last_instruction_,       \* Module::last_instruction_
  last_instruction_start_, \* Module::last_instruction_start_
  last_instruction_end_,   \* Module::last_instruction_end_
  last_c_name_,            \* Module::last_c_name_
  status,                  \* "ok" | "error" (exception escaped) | "crashed"
  hooks,                   \* TRUE while profile_func/trace_func are installed
  hstack,                  \* the host's own call stack, top last
  report,                  \* value returned by the latest dump()
  g_prev,                  \* ghost: the previous notification delivered
  g_pop,                   \* ghost: the pop performed by the latest step
  g_begun,                 \* ghost: Call events begun, per code
  g_cbegun,                \* ghost: NativeCall events begun, per name
  g_retf,                  \* ghost: Return events followed by a later event
  g_asked,                 \* ghost: codes whose source the latest step asked
                           \*        the host for (inspect.getsourcelines)
  g_invocations            \* ghost, SpecMerge only: the completed frames, and
                           \*        the position at which each was merged

progvars ==
  <<functions_, c_functions_, frame_stack_, last_instruction_,
    last_instruction_start_, last_instruction_end_, last_c_name_>>

vars ==
  <<functions_, c_functions_, frame_stack_, last_instruction_,
    last_instruction_start_, last_instruction_end_, last_c_name_,
    status, hooks, hstack, report, g_prev, g_pop, g_begun, g_cbegun,
    g_retf, g_asked, g_invocations>>

\* --------------------------------------------------------- data structures
\* class LineState, default member initialisers
LineState == [n_calls_ |-> 0, internal_ |-> 0, external_ |-> 0]

\* LineRecord::LineRecord(std::string line)
LineRecord(line) ==
  [n_calls_ |-> 0, internal_ |-> 0, external_ |-> 0, line_ |-> line]

\* operator+= that adds only into a field that is still zero
LineState_keep_first(lhs, rhs) ==
  [lhs EXCEPT !.n_calls_ = IF @ = 0 THEN rhs.n_calls_ ELSE @,
              !.internal_ = IF @ = 0 THEN rhs.internal_ ELSE @,
              !.external_ = IF @ = 0 THEN rhs.external_ ELSE @]

\* operator+= that assigns: the record takes the frame's values
LineState_assign(lhs, rhs) ==
  [lhs EXCEPT !.n_calls_ = rhs.n_calls_,
              !.internal_ = rhs.internal_,
              !.external_ = rhs.external_]

\* LineState::operator+= applied to a LineRecord
LineState_plus_eq(lhs, rhs) ==
  [lhs EXCEPT !.n_calls_ = @ + rhs.n_calls_,
              !.internal_ = @ + rhs.internal_,
              !.external_ = @ + rhs.external_]

\* BaseFunction::BaseFunction(std::string name)
BaseFunction(name) == [n_calls_ |-> 0, name_ |-> name, internal_time_ |-> 0]

\* Function::Function(name, lines, code): one LineRecord per line text
Function(name, lines, code) ==
  [n_calls_ |-> 0, name_ |-> name, internal_time_ |-> 0, code_ |-> code,
   lines_ |-> [i \in 1..Len(lines) |-> LineRecord(lines[i])]]

\* ghost part of a FrameState:
\*   g_span      clock time from the frame's Call event to its Return event
\*   g_returned  the frame's Return event has been delivered
\*   g_line      intervals owed to the frame's lines: those that followed a
\*               Line or NativeCall event while it was on top, and the g_line
\*               of every frame popped back into it
\*   g_ovh       intervals that followed a NativeReturn, NativeException or
\*               Return event while it was on top
\*   g_lcnt      Line events per line number while it was on top
\*   g_lint      intervals that followed those Line events, per line number
\*   g_clean     no Call or NativeCall began, and no start() or stop() ran,
\*               while it was on the stack
\*   g_stopped   stop() ran while it was on the stack holding counted lines
\*   g_subn      Call events of its own code begun while it was on the stack
\*   g_sub       line values of the frames of its own code popped meanwhile
\*   g_base      call count and line values of its Function before its Call
GhostFrame(n_lines) ==
  [g_span |-> 0, g_returned |-> FALSE, g_line |-> 0, g_ovh |-> 0,
   g_lcnt |-> [l \in AllLines |-> 0], g_lint |-> [l \in AllLines |-> 0],
   g_clean |-> TRUE, g_stopped |-> FALSE, g_subn |-> 0,
   g_sub |-> [i \in 1..n_lines |-> LineState],
   g_base |-> [n_calls_ |-> 0, lines_ |-> [i \in 1..n_lines |-> LineState]]]

\* FrameState::FrameState(code, n_lines, starting_line)
FrameState(code, n_lines, starting_line) ==
  [starting_line_ |-> starting_line, current_line_ |-> 0,
   function_key_ |-> code,
   lines_ |-> [i \in 1..n_lines |-> LineState],
   internal_ |-> 0] @@ GhostFrame(n_lines)

\* the loop of FrameState::total_time over a vector of LineState
RECURSIVE SumLines(_)
SumLines(lines) ==
  IF lines = <<>> THEN 0
  ELSE Head(lines).internal_ + Head(lines).external_ + SumLines(Tail(lines))

\* a total_time that counts the frame's overhead accumulator as well
total_time_with_overhead(fr) == SumLines(fr.lines_) + fr.internal_

\* FrameState::total_time
total_time(fr) == SumLines(fr.lines_)

\* an index that takes the starting line for the first record
current_line_index_from_start(fr) ==
  (fr.current_line_ - fr.starting_line_) % SizeModulus

\* the index FrameState::current_line passes to lines_.at(), in size_t
current_line_index(fr) ==
  (fr.current_line_ - fr.starting_line_ - 1) % SizeModulus

\* PyCode_GetName / PyFrame_GetName: co_name of the code object
PyFrame_GetName(frame) == frame.f_code

\* PyUnicode_FromFormat("<C-function %U.%U>", module, qualname)
CFunctionName(arg) ==
  <<"<C-function ", arg.module, ".", arg.qualname, ">">>

CNames == {CFunctionName(a) : a \in NativeCallables}

\* ----------------------------------------------------------- Module methods
\* A method is an operator from the Module's fields (a record m) to the
\* fields after it has run.  m.status leaves "ok" when a C++ exception
\* escapes ("error") or when undefined behaviour ends the process
\* ("crashed"); the rest of the call is then skipped.

Throw(m) == [m EXCEPT !.status = "error"]

\* std::stack::top() on an empty stack is undefined: the process dies, or
\* the access lands outside the objects modelled here and execution goes on.
UndefinedTop(m, u) == IF u = "crash" THEN [m EXCEPT !.status = "crashed"] ELSE m

\* Module::elapsed
elapsed(m) == m.last_instruction_end_ - m.last_instruction_start_

\* frame_stack_.top().current_line().add_<field>(dur), stack non-empty
AddToCurrentLine(m, field, dur) ==
  LET n == Len(m.frame_stack_)
      fr == m.frame_stack_[n]
      i == current_line_index(fr)
  IN IF i >= Len(fr.lines_)
       THEN Throw(m)
       ELSE [m EXCEPT !.frame_stack_[n].lines_[i + 1][field] = @ + dur]

\* Module::get_lines: drops element 0 of the source lines
get_lines(frame) ==
  [lines |-> SubSeq(Source[frame.f_code].text, 2,
                    Len(Source[frame.f_code].text)),
   line_start |-> Source[frame.f_code].start]

\* Module::emplace_frame
emplace_frame(m, frame) ==
  LET got == get_lines(frame)
  IN [m EXCEPT !.frame_stack_ =
        Append(@, FrameState(frame.f_code, Len(got.lines), got.line_start)),
               !.g_asked = @ \cup {frame.f_code}]

\* Module::start
start(m) == [m EXCEPT !.last_instruction_ = "kOrigin", !.hooks = TRUE]

\* Module::finish_origin
finish_origin(m, frame) == m

\* Module::stop
stop(m) == [m EXCEPT !.hooks = FALSE]

\* CreateFunctionDict
CreateFunctionDict(function) ==
  [name |-> function.name_, n_calls |-> function.n_calls_,
   internal_ns |-> function.internal_time_]

\* the dict Module::dump builds
Report(m) ==
  [functions |->
     [c \in DOMAIN m.functions_ |->
        CreateFunctionDict(m.functions_[c]) @@
        [lines |->
           [j \in 1..Len(m.functions_[c].lines_) |->
              [line_str |-> m.functions_[c].lines_[j].line_,
               n_calls |-> m.functions_[c].lines_[j].n_calls_,
               internal_ns |-> m.functions_[c].lines_[j].internal_,
               external_ns |-> m.functions_[c].lines_[j].external_]]]],
   c_functions |->
     [n \in DOMAIN m.c_functions_ |-> CreateFunctionDict(m.c_functions_[n])]]

\* a dump that clears the counters it has reported
dump_and_reset(m) ==
  [after |-> [m EXCEPT !.functions_ =
                 [c \in DOMAIN @ |-> [@[c] EXCEPT !.n_calls_ = 0]]],
   result |-> Report(m)]

\* Module::dump: the fields after the call and the returned report
dump(m) == [after |-> m, result |-> Report(m)]

\* Module::add_function
add_function(m, frame) ==
  IF frame.f_code \in DOMAIN m.functions_
    THEN m
    ELSE [m EXCEPT !.functions_ =
            @ @@ (frame.f_code :>
                    Function(PyFrame_GetName(frame), get_lines(frame).lines,
                             frame.f_code)),
                   !.g_asked = @ \cup {frame.f_code}]

\* an add_c_function whose registry has room for one native callable
add_c_function_single_slot(m, name) ==
  IF name \in DOMAIN m.c_functions_
    THEN m
    ELSE [m EXCEPT !.c_functions_ = (name :> BaseFunction(name))]

\* Module::add_c_function: emplace keeps an existing entry
add_c_function(m, name) ==
  IF name \in DOMAIN m.c_functions_
    THEN m
    ELSE [m EXCEPT !.c_functions_ = @ @@ (name :> BaseFunction(name))]

\* a profile_call that counts a call only when the callable is not running
profile_call_outermost_only(m, frame) ==
  LET m1 == add_function(m, frame)
      running == \E k \in 1..Len(m.frame_stack_) :
                   m.frame_stack_[k].function_key_ = frame.f_code
      m2 == IF running THEN m1
            ELSE [m1 EXCEPT !.functions_[frame.f_code].n_calls_ = @ + 1]
      m3 == emplace_frame(m2, frame)
  IN [m3 EXCEPT !.last_instruction_ = "kCall"]

\* Module::profile_call
profile_call(m, frame) ==
  LET m1 == add_function(m, frame)
      m2 == [m1 EXCEPT !.functions_[frame.f_code].n_calls_ = @ + 1]
      m3 == emplace_frame(m2, frame)
  IN [m3 EXCEPT !.last_instruction_ = "kCall"]

\* a finish_call that looks the code up with operator[], which inserts
finish_call_default_entry(m, frame) ==
  IF frame.f_code \notin DOMAIN m.functions_
    THEN [m EXCEPT !.functions_ =
            @ @@ (frame.f_code :>
                    [Function(<<>>, <<>>, frame.f_code) EXCEPT
                       !.internal_time_ = elapsed(m)])]
    ELSE [m EXCEPT !.functions_[frame.f_code].internal_time_ = @ + elapsed(m)]

\* Module::finish_call
finish_call(m, frame) ==
  IF frame.f_code \notin DOMAIN m.functions_
    THEN Throw(m)
    ELSE [m EXCEPT !.functions_[frame.f_code].internal_time_ = @ + elapsed(m)]

\* Module::profile_line
profile_line(m, frame) ==
  LET m1 == [m EXCEPT !.last_instruction_ = "kLine"]
      n == Len(m.frame_stack_)
      m2 == [m1 EXCEPT !.frame_stack_[n].current_line_ = frame.f_lineno]
      i == current_line_index(m2.frame_stack_[n])
  IN IF n = 0 THEN m1
     ELSE IF i >= Len(m2.frame_stack_[n].lines_) THEN Throw(m2)
     ELSE [m2 EXCEPT !.frame_stack_[n].lines_[i + 1].n_calls_ = @ + 1]

\* Module::profile_c_call
profile_c_call(m, frame, arg) ==
  LET name == CFunctionName(arg)
      m1 == [m EXCEPT !.last_c_name_ = name]
      m2 == add_c_function(m1, name)
      m3 == [m2 EXCEPT !.c_functions_[name].n_calls_ = @ + 1]
  IN [m3 EXCEPT !.last_instruction_ = "kCCall"]

\* Module::finish_ccall
finish_ccall(m, frame, u) ==
  IF m.last_c_name_ \notin DOMAIN m.c_functions_ THEN Throw(m)
  ELSE LET m1 == [m EXCEPT !.c_functions_[m.last_c_name_].internal_time_ =
                     @ + elapsed(m)]
       IN IF m1.frame_stack_ = <<>>
            THEN UndefinedTop(m1, u)
            ELSE AddToCurrentLine(m1, "external_", elapsed(m1))

\* a finish_line that also writes the interval through to the Function's
\* line record
finish_line_write_through(m, frame) ==
  IF m.frame_stack_ = <<>> THEN m
  ELSE LET m1 == AddToCurrentLine(m, "internal_", elapsed(m))
           fr == m.frame_stack_[Len(m.frame_stack_)]
           i == current_line_index(fr) + 1
       IN IF m1.status # "ok" THEN m1
          ELSE [m1 EXCEPT !.functions_[fr.function_key_].lines_[i].internal_ =
                            @ + elapsed(m)]

\* Module::finish_line
finish_line(m, frame) ==
  IF m.frame_stack_ = <<>> THEN m
  ELSE AddToCurrentLine(m, "internal_", elapsed(m))

\* Module::profile_return
profile_return(m, frame) == [m EXCEPT !.last_instruction_ = "kReturn"]

\* Module::profile_c_return
profile_c_return(m, frame) == [m EXCEPT !.last_instruction_ = "kCReturn"]

\* Module::finish_creturn
finish_creturn(m, u) ==
  IF m.frame_stack_ = <<>>
    THEN UndefinedTop(m, u)
    ELSE [m EXCEPT !.frame_stack_[Len(m.frame_stack_)].internal_ =
            @ + elapsed(m)]

\* Module::pop_frame, stack non-empty
pop_frame(m) ==
  LET n == Len(m.frame_stack_)
      frame == m.frame_stack_[n]
      key == frame.function_key_
  IN IF key \notin DOMAIN m.functions_ THEN Throw(m)
     ELSE
       LET function == m.functions_[key]
           nrec == Len(function.lines_)
           nfr == Len(frame.lines_)
           merged ==
             [function EXCEPT
                !.internal_time_ = @ + frame.internal_,
                !.lines_ =
                  [i \in 1..nrec |->
                     IF i <= nfr
                       THEN LineState_plus_eq(function.lines_[i],
                                              frame.lines_[i])
                       ELSE function.lines_[i]]]
           m1 == [m EXCEPT !.functions_[key] = merged]
           total == total_time(frame)
           m2 == [m1 EXCEPT !.frame_stack_ = SubSeq(@, 1, n - 1)]
           m3 == IF m2.frame_stack_ = <<>> THEN m2
                 ELSE AddToCurrentLine(m2, "external_", total)
       IN IF nfr > nrec THEN Throw(m1)   \* function.line(i) is lines_.at(i)
          ELSE [m3 EXCEPT
                  !.g_pop = [popped |-> TRUE, frame |-> frame,
                             before |-> function, after |-> merged,
                             total |-> total, depth |-> n,
                             caller |-> IF n > 1 THEN m2.frame_stack_[n - 1]
                                        ELSE frame,
                             caller_after |-> IF n > 1
                                                THEN m3.frame_stack_[n - 1]
                                                ELSE frame,
                             functions_before |-> m.functions_,
                             functions_after |-> m3.functions_]]

\* a finish_return that pops without charging the interval to the frame
finish_return_uncharged(m, u) ==
  IF m.frame_stack_ = <<>>
    THEN IF u = "crash" THEN [m EXCEPT !.status = "crashed"] ELSE Throw(m)
    ELSE pop_frame(m)

\* Module::finish_return
finish_return(m, u) ==
  IF m.frame_stack_ = <<>>
    THEN \* top() and pop() on an empty stack: the process dies, or
         \* functions_.at() is handed a key read from outside the stack
         IF u = "crash" THEN [m EXCEPT !.status = "crashed"] ELSE Throw(m)
    ELSE pop_frame([m EXCEPT !.frame_stack_[Len(m.frame_stack_)].internal_ =
                       @ + elapsed(m)])

\* Module::profile, the switch on last_instruction_
profile_finish(m, frame, u) ==
  CASE m.last_instruction_ = "kOrigin" -> finish_origin(m, frame)
    [] m.last_instruction_ = "kLine" -> finish_line(m, frame)
    [] m.last_instruction_ = "kCall" -> finish_call(m, frame)
    [] m.last_instruction_ = "kReturn" -> finish_return(m, u)
    [] m.last_instruction_ = "kException" -> m
    [] m.last_instruction_ = "kCCall" -> finish_ccall(m, frame, u)
    [] m.last_instruction_ = "kCReturn" -> finish_creturn(m, u)
    [] m.last_instruction_ = "kCException" -> m
    [] m.last_instruction_ = "kInvalid" -> m
    [] OTHER -> Throw(m)

\* Module::profile, the switch on what
profile_begin(m, what, frame, arg) ==
  CASE what = "PyTrace_LINE" -> profile_line(m, frame)
    [] what = "PyTrace_CALL" -> profile_call(m, frame)
    [] what = "PyTrace_RETURN" -> profile_return(m, frame)
    [] what = "PyTrace_C_CALL" -> profile_c_call(m, frame, arg)
    [] what = "PyTrace_C_RETURN" -> profile_c_return(m, frame)
    [] what = "PyTrace_EXCEPTION" -> m
    [] what = "PyTrace_C_EXCEPTION" -> profile_c_return(m, frame)
    [] what = "PyTrace_OPCODE" -> m
    [] OTHER -> Throw(m)

\* a profile that runs the Begin of the new event ahead of the Finish of the
\* previous one
profile_begin_first(m, what, frame, arg, now, u) ==
  LET m1 == [m EXCEPT !.last_instruction_end_ = now]
      m2 == profile_begin(m1, what, frame, arg)
      m3 == IF m2.status = "ok"
              THEN profile_finish(
                     [m2 EXCEPT !.last_instruction_ = m.last_instruction_],
                     frame, u)
              ELSE m2
  IN IF m3.status = "ok"
       THEN [m3 EXCEPT !.last_instruction_ = m2.last_instruction_,
                       !.last_instruction_start_ = now]
       ELSE m3

\* Module::profile; now is the reading of clock::now()
profile(m, what, frame, arg, now, u) ==
  LET m1 == [m EXCEPT !.last_instruction_end_ = now]
      m2 == profile_finish(m1, frame, u)
      m3 == IF m2.status = "ok" THEN profile_begin(m2, what, frame, arg)
            ELSE m2
  IN IF m3.status = "ok" THEN [m3 EXCEPT !.last_instruction_start_ = now]
     ELSE m3

\* profile_func
profile_func(m, frame, what, arg, now, u) ==
  profile(m, what, frame, arg, now, u)

\* trace_func: only PyTrace_LINE is passed on
trace_func(m, frame, what, arg, now, u) ==
  IF what # "PyTrace_LINE" THEN m
  ELSE profile_func(m, frame, what, arg, now, u)

\* ------------------------------------------------------------ specification
NoPop == [popped |-> FALSE]
NoReport == <<>>

\* the extension module is imported at module level or inside a callable
InitialStacks == {<<>>, <<[kind |-> "py", id |-> "f"]>>}

Self ==
  [functions_ |-> functions_, c_functions_ |-> c_functions_,
   frame_stack_ |-> frame_stack_, last_instruction_ |-> last_instruction_,
   last_instruction_start_ |-> last_instruction_start_,
   last_instruction_end_ |-> last_instruction_end_,
   last_c_name_ |-> last_c_name_, status |-> status, hooks |-> hooks,
   g_pop |-> NoPop, g_asked |-> {}, g_invocations |-> g_invocations]

Commit(m) ==
  /\ functions_' = m.functions_
  /\ c_functions_' = m.c_functions_
  /\ frame_stack_' = m.frame_stack_
  /\ last_instruction_' = m.last_instruction_
  /\ last_instruction_start_' = m.last_instruction_start_
  /\ last_instruction_end_' = m.last_instruction_end_
  /\ last_c_name_' = m.last_c_name_
  /\ status' = m.status
  /\ hooks' = m.hooks
  /\ g_pop' = m.g_pop
  /\ g_asked' = m.g_asked
  /\ g_invocations' = m.g_invocations

\* the state module_exec leaves: Module::Module and the member initialisers
Init ==
  /\ functions_ = <<>>
  /\ c_functions_ = <<>>
  /\ frame_stack_ = <<>>
  /\ last_instruction_ = "kInvalid"
  /\ last_instruction_start_ = 0
  /\ last_instruction_end_ = 0
  /\ last_c_name_ = <<>>
  /\ status = "ok"
  /\ hooks = FALSE
  /\ hstack \in InitialStacks
  /\ report = NoReport
  /\ g_prev = [kind |-> "none"]
  /\ g_pop = NoPop
  /\ g_begun = [c \in Codes |-> 0]
  /\ g_cbegun = [n \in CNames |-> 0]
  /\ g_retf = 0
  /\ g_asked = {}
  /\ g_invocations = <<>>

\* ---------------------------------------------------------------- the host
\* The interpreter runs one thread.  Its stack holds python frames (a code)
\* and native frames (a native callable); below the stack runs module-level
\* code.  Every notification carries the innermost python frame.
PyFrames == {k \in 1..Len(hstack) : hstack[k].kind = "py"}

HostCode ==
  IF PyFrames = {} THEN ModuleCode
  ELSE hstack[CHOOSE k \in PyFrames : \A j \in PyFrames : j <= k].id

InNative == hstack # <<>> /\ hstack[Len(hstack)].kind = "c"

HostPop == SubSeq(hstack, 1, Len(hstack) - 1)

\* ------------------------------------------------------------------- ghosts
\* on arrival of a notification d after the previous one: wall-clock span of
\* every frame that has not seen its Return, and the interval's owner as the
\* kind of the previous notification says
GhostArrive(stack, d) ==
  [k \in 1..Len(stack) |->
     LET fr == stack[k]
         sp == [fr EXCEPT !.g_span = IF fr.g_returned THEN @ ELSE @ + d]
     IN IF k # Len(stack) THEN sp
        ELSE CASE g_prev.kind = "line" ->
                    [sp EXCEPT !.g_line = @ + d,
                               !.g_lint[g_prev.line] = @ + d]
               [] g_prev.kind = "ccall" -> [sp EXCEPT !.g_line = @ + d]
               [] g_prev.kind \in {"creturn", "cexception", "return"} ->
                    [sp EXCEPT !.g_ovh = @ + d]
               [] OTHER -> sp]

\* after the notification: what a pop hands to the caller, and what the
\* begun event means for the frame that was on top when it began
GhostBegin(stack, pop, what, frame, begun) ==
  LET c == IF pop.popped THEN pop.depth - 1 ELSE 0
      called == begun /\ what = "PyTrace_CALL"
      fns == IF pop.popped THEN pop.functions_after ELSE functions_
      base == IF frame.f_code \in DOMAIN fns
                THEN [n_calls_ |-> fns[frame.f_code].n_calls_,
                      lines_ |-> [i \in DOMAIN fns[frame.f_code].lines_ |->
                                    LineState_plus_eq(
                                      LineState, fns[frame.f_code].lines_[i])]]
                ELSE [n_calls_ |-> 0,
                      lines_ |-> [i \in DOMAIN stack[Len(stack)].lines_ |->
                                    LineState]]
      t == IF called THEN Len(stack) - 1 ELSE Len(stack)
  IN [k \in 1..Len(stack) |->
        LET fr == stack[k]
            f1 == IF k = c THEN [fr EXCEPT !.g_line = @ + pop.frame.g_line]
                  ELSE fr
            f2 == IF k <= c /\ pop.frame.function_key_ = fr.function_key_
                    THEN [f1 EXCEPT
                            !.g_sub = [i \in DOMAIN @ |->
                                         LineState_plus_eq(@[i],
                                                           pop.frame.lines_[i])]]
                    ELSE f1
            f3 == IF called /\ k <= t /\ fr.function_key_ = frame.f_code
                    THEN [f2 EXCEPT !.g_subn = @ + 1]
                    ELSE f2
        IN IF called /\ k = Len(stack) THEN [f3 EXCEPT !.g_base = base]
           ELSE IF ~begun \/ k # t THEN f3
           ELSE CASE what \in {"PyTrace_CALL", "PyTrace_C_CALL"} ->
                       [f3 EXCEPT !.g_clean = FALSE]
                  [] what = "PyTrace_LINE" ->
                       [f3 EXCEPT !.g_lcnt[frame.f_lineno] = @ + 1]
                  [] what = "PyTrace_RETURN" ->
                       [f3 EXCEPT !.g_returned = TRUE]
                  [] OTHER -> f3]

EventOf(what, frame, arg) ==
  CASE what = "PyTrace_CALL" -> [kind |-> "call", code |-> frame.f_code]
    [] what = "PyTrace_LINE" -> [kind |-> "line", line |-> frame.f_lineno]
    [] what = "PyTrace_RETURN" -> [kind |-> "return"]
    [] what = "PyTrace_C_CALL" -> [kind |-> "ccall", name |-> CFunctionName(arg)]
    [] what = "PyTrace_C_EXCEPTION" -> [kind |-> "cexception"]
    [] OTHER -> [kind |-> "creturn"]

\* ------------------------------------------------------------------ actions
\* one notification through the installed hook, the clock having advanced;
\* m0, m1 and m2 name the Module on arrival, after Module::profile, and with
\* the ghosts of the begun event
Deliver(hook, what, frame, arg) ==
  \E d \in Gaps, u \in UBChoices :
    /\ last_instruction_start_ + d <= MaxTime
    /\ \E m0 \in {[Self EXCEPT !.frame_stack_ = GhostArrive(@, d)]} :
       \E m1 \in {IF hook = "trace_func"
                    THEN trace_func(m0, frame, what, arg,
                                    last_instruction_start_ + d, u)
                    ELSE profile_func(m0, frame, what, arg,
                                      last_instruction_start_ + d, u)} :
       \E m2 \in {[m1 EXCEPT !.frame_stack_ =
                     GhostBegin(@, m1.g_pop, what, frame, m1.status = "ok")]} :
         /\ Commit(m2)
         /\ g_prev' = EventOf(what, frame, arg)
         /\ g_retf' = IF g_prev.kind = "return" THEN g_retf + 1 ELSE g_retf
         /\ g_begun' = IF m1.status = "ok" /\ what = "PyTrace_CALL"
                         THEN [g_begun EXCEPT ![frame.f_code] = @ + 1]
                         ELSE g_begun
         /\ g_cbegun' = IF m1.status = "ok" /\ what = "PyTrace_C_CALL"
                          THEN [g_cbegun EXCEPT ![CFunctionName(arg)] = @ + 1]
                          ELSE g_cbegun
         /\ report' = NoReport

\* the host moves while no hook is installed
Silent ==
  /\ UNCHANGED <<progvars, status, hooks, g_prev, g_begun, g_cbegun, g_retf>>
  /\ g_pop' = NoPop
  /\ g_asked' = {}
  /\ g_invocations' = g_invocations
  /\ report' = NoReport

\* the host enters a python callable: PyTrace_CALL to profile_func
HostCall(c) ==
  /\ status = "ok"
  /\ hooks
  /\ IF InNative THEN hstack[Len(hstack)].id = Builtin /\ c \in Callbacks
     ELSE c \in PyCalls[HostCode]
  /\ Len(hstack) < MaxDepth
  /\ hstack' = Append(hstack, [kind |-> "py", id |-> c])
  /\ Deliver("profile_func", "PyTrace_CALL",
             [f_code |-> c, f_lineno |-> Source[c].start], NoArg)

\* the host reaches a new line: PyTrace_LINE to trace_func
HostLine(l) ==
  /\ status = "ok"
  /\ hooks
  /\ ~InNative
  /\ l \in LineNumbers(HostCode)
  /\ hstack' = hstack
  /\ Deliver("trace_func", "PyTrace_LINE",
             [f_code |-> HostCode, f_lineno |-> l], NoArg)

\* the host leaves a python callable: PyTrace_RETURN to profile_func
HostReturn ==
  /\ status = "ok"
  /\ hstack # <<>>
  /\ ~InNative
  /\ hstack' = HostPop
  /\ IF hooks
       THEN Deliver("profile_func", "PyTrace_RETURN",
                    [f_code |-> HostCode, f_lineno |-> Source[HostCode].start],
                    NoArg)
       ELSE Silent

\* the host calls a native callable: PyTrace_C_CALL to profile_func
HostCCall(a) ==
  /\ status = "ok"
  /\ hooks
  /\ ~InNative
  /\ Len(hstack) < MaxDepth
  /\ a \in CCalls[HostCode]
  /\ hstack' = Append(hstack, [kind |-> "c", id |-> a, done |-> FALSE])
  /\ Deliver("profile_func", "PyTrace_C_CALL",
             [f_code |-> HostCode, f_lineno |-> Source[HostCode].start], a)

\* the native callable returns: PyTrace_C_RETURN to profile_func
HostCReturn ==
  /\ status = "ok"
  /\ InNative
  /\ hstack[Len(hstack)].id # Builtin => hstack[Len(hstack)].done
  /\ hstack' = HostPop
  /\ IF hooks
       THEN Deliver("profile_func", "PyTrace_C_RETURN",
                    [f_code |-> HostCode, f_lineno |-> Source[HostCode].start],
                    NoArg)
       ELSE Silent

\* the native callable raises: PyTrace_C_EXCEPTION to profile_func
HostCException ==
  /\ status = "ok"
  /\ InNative
  /\ hstack[Len(hstack)].id # Builtin => hstack[Len(hstack)].done
  /\ hooks
  /\ hstack' = HostPop
  /\ Deliver("profile_func", "PyTrace_C_EXCEPTION",
             [f_code |-> HostCode, f_lineno |-> Source[HostCode].start],
             NoArg)

\* python code raises: PyTrace_EXCEPTION goes to trace_func only, which
\* returns before Module::profile, so no clock is read and nothing is begun
HostException ==
  /\ status = "ok"
  /\ hooks
  /\ ~InNative
  /\ hstack' = hstack
  /\ \E m1 \in {trace_func(Self, [f_code |-> HostCode,
                                   f_lineno |-> Source[HostCode].start],
                            "PyTrace_EXCEPTION", NoArg,
                            last_instruction_start_, "continue")} :
       Commit(m1)
  /\ report' = NoReport
  /\ UNCHANGED <<g_prev, g_begun, g_cbegun, g_retf>>

\* start(), stop() and dump() are native callables of the extension module:
\* python code calls them, so while the hooks are installed the method runs
\* inside the native call whose PyTrace_C_CALL was just delivered; with no
\* hook installed the call and its return are not notified.
Callable(name) ==
  /\ status = "ok"
  /\ IF hooks
       THEN /\ InNative
            /\ hstack[Len(hstack)].id = Method(name)
            /\ ~hstack[Len(hstack)].done
            /\ hstack' = [hstack EXCEPT ![Len(hstack)].done = TRUE]
       ELSE /\ ~InNative
            /\ hstack' = hstack

\* module_start
Start ==
  /\ Callable("start")
  /\ Commit([start(Self) EXCEPT
               !.frame_stack_ =
                  [k \in 1..Len(@) |-> [@[k] EXCEPT !.g_clean = FALSE]]])
  /\ g_prev' = [kind |-> "start"]
  /\ report' = NoReport
  /\ UNCHANGED <<g_begun, g_cbegun, g_retf>>

\* module_stop
Stop ==
  /\ hooks
  /\ Callable("stop")
  /\ Commit([stop(Self) EXCEPT
               !.frame_stack_ =
                  [k \in 1..Len(@) |->
                     [@[k] EXCEPT
                        !.g_clean = FALSE,
                        !.g_stopped =
                          \E i \in DOMAIN frame_stack_[k].lines_ :
                            frame_stack_[k].lines_[i].n_calls_ > 0]]])
  /\ report' = NoReport
  /\ UNCHANGED <<g_prev, g_begun, g_cbegun, g_retf>>

\* module_dump
Dump ==
  /\ Callable("dump")
  /\ Commit(dump(Self).after)
  /\ report' = dump(Self).result
  /\ UNCHANGED <<g_prev, g_begun, g_cbegun, g_retf>>

Next ==
  \/ \E c \in Codes : HostCall(c)
  \/ \E l \in AllLines : HostLine(l)
  \/ HostReturn
  \/ \E a \in NativeCallables : HostCCall(a)
  \/ HostCReturn
  \/ HostCException
  \/ HostException
  \/ Start
  \/ Stop
  \/ Dump

Spec == Init /\ [][Next]_vars

\* ------------------------------------------------- merging completed frames
\* Module::pop_frame as a function of the Registry and of the frame on top:
\* three completed invocations, two of f and one of g, wait to be popped, and
\* each step pops one of them, in any order.  The frames of f carry any line
\* values and overhead in 0..MergeMax, the frame of g fixed ones.
Invocations == {"F1", "F2", "G"}

CompletedFrames(x) ==
  IF x = "G"
    THEN {[FrameState("g", Len(get_lines([f_code |-> "g"]).lines),
                      get_lines([f_code |-> "g"]).line_start)
             EXCEPT !.lines_[1] = [n_calls_ |-> 1, internal_ |-> 1,
                                   external_ |-> 0],
                    !.internal_ = 1]}
    ELSE {[FrameState("f", Len(get_lines([f_code |-> "f"]).lines),
                      get_lines([f_code |-> "f"]).line_start)
             EXCEPT !.lines_[1] = [n_calls_ |-> n, internal_ |-> i,
                                   external_ |-> e],
                    !.internal_ = o] :
            n \in 0..MergeMax, i \in 0..MergeMax, e \in 0..MergeMax,
            o \in 0..MergeMax}

\* the Registry after the three Calls began and before any frame is popped
InitMerge ==
  /\ \E m \in {profile_call(profile_call(profile_call(
                   [functions_ |-> <<>>, c_functions_ |-> <<>>,
                    frame_stack_ |-> <<>>, last_instruction_ |-> "kOrigin",
                    last_instruction_start_ |-> 0,
                    last_instruction_end_ |-> 0, last_c_name_ |-> <<>>,
                    status |-> "ok", hooks |-> TRUE, g_pop |-> NoPop,
                    g_asked |-> {}, g_invocations |-> <<>>],
                   [f_code |-> "f"]), [f_code |-> "g"]), [f_code |-> "f"])} :
       /\ functions_ = m.functions_
       /\ c_functions_ = m.c_functions_
       /\ last_instruction_ = "kReturn"
  /\ frame_stack_ = <<>>
  /\ last_instruction_start_ = 0
  /\ last_instruction_end_ = 0
  /\ last_c_name_ = <<>>
  /\ status = "ok"
  /\ hooks = TRUE
  /\ hstack = <<>>
  /\ report = NoReport
  /\ g_prev = [kind |-> "return"]
  /\ g_pop = NoPop
  /\ g_begun = [c \in Codes |-> IF c = "f" THEN 2 ELSE 1]
  /\ g_cbegun = [n \in CNames |-> 0]
  /\ g_retf = 0
  /\ g_asked = {}
  /\ \E f1 \in CompletedFrames("F1"), f2 \in CompletedFrames("F2"),
        g \in CompletedFrames("G") :
       g_invocations =
         [x \in Invocations |->
            [frame |-> IF x = "F1" THEN f1 ELSE IF x = "F2" THEN f2 ELSE g,
             at |-> 0]]

\* the frame of invocation x is on top and Module::pop_frame pops it
MergeFrame(x) ==
  /\ g_invocations[x].at = 0
  /\ \E m \in {pop_frame([Self EXCEPT
                             !.frame_stack_ = <<g_invocations[x].frame>>])} :
       Commit([m EXCEPT
                 !.g_invocations[x].at =
                    1 + Cardinality({y \in Invocations :
                                       g_invocations[y].at > 0})])
  /\ report' = NoReport
  /\ UNCHANGED <<hstack, g_prev, g_begun, g_cbegun, g_retf>>

NextMerge == \E x \in Invocations : MergeFrame(x)

SpecMerge == InitMerge /\ [][NextMerge]_vars

\* ------------------------------------------------------------------- claims
\* C1 as stated: when a frame is popped, the sum of its lines' internal and
\* external time plus its overhead equals the clock span from its Call event
\* to its Return event.
C1_SumIsCallToReturnSpan ==
  g_pop.popped =>
    total_time(g_pop.frame) + g_pop.frame.internal_ = g_pop.frame.g_span

\* C1: when a frame is popped, the sum of its lines' internal and external
\* time equals the intervals that followed the Line and NativeCall events
\* delivered while it was the top frame plus the line totals of the frames
\* popped back into it, and its overhead equals the intervals that followed
\* the NativeReturn, NativeException and Return events delivered while it was
\* the top frame.  The interval that followed its own Call event is in
\* neither; the interval that followed its Return event is in its overhead.
C1_SumIsMeasuredIntervals ==
  g_pop.popped =>
    /\ total_time(g_pop.frame) = g_pop.frame.g_line
    /\ g_pop.frame.internal_ = g_pop.frame.g_ovh

\* a frame is popped that saw Line events, a native call and return, and
\* the interval after its Return
C1_Witness ==
  /\ g_pop.popped
  /\ g_pop.frame.g_ovh >= 2
  /\ g_pop.frame.g_line >= 2
  /\ \E i \in DOMAIN g_pop.frame.lines_ :
       /\ g_pop.frame.lines_[i].internal_ > 0
       /\ g_pop.frame.lines_[i].external_ > 0

\* C2: dump() is a pure read.  A step in which dump() returns leaves the
\* Registry, the call stack and the last-event kind as they were, and a
\* dump() that follows a dump() with nothing in between returns the same
\* report.
C2_DumpIsPureRead ==
  [][report' # NoReport =>
       /\ UNCHANGED <<functions_, c_functions_, frame_stack_,
                      last_instruction_, last_c_name_>>
       /\ (report # NoReport => report' = report)]_vars

\* a report has been returned while callables, native callables and a live
\* frame with counted lines were on record
C2_Witness ==
  /\ report # NoReport
  /\ \E c \in DOMAIN functions_ : functions_[c].n_calls_ > 0
  /\ DOMAIN c_functions_ # {}
  /\ frame_stack_ # <<>>

\* C3: no step decreases a counter of the Registry.  Every Function and
\* BaseFunction stays on record with a call count and an aggregate time not
\* below what they were, and every line record keeps a call count, an
\* internal time and an external time not below what they were.
C3_CountersNeverDecrease ==
  [][/\ \A c \in DOMAIN functions_ :
          /\ c \in DOMAIN functions_'
          /\ functions_'[c].n_calls_ >= functions_[c].n_calls_
          /\ functions_'[c].internal_time_ >= functions_[c].internal_time_
          /\ DOMAIN functions_'[c].lines_ = DOMAIN functions_[c].lines_
          /\ \A i \in DOMAIN functions_[c].lines_ :
               /\ functions_'[c].lines_[i].n_calls_ >=
                    functions_[c].lines_[i].n_calls_
               /\ functions_'[c].lines_[i].internal_ >=
                    functions_[c].lines_[i].internal_
               /\ functions_'[c].lines_[i].external_ >=
                    functions_[c].lines_[i].external_
     /\ \A n \in DOMAIN c_functions_ :
          /\ n \in DOMAIN c_functions_'
          /\ c_functions_'[n].n_calls_ >= c_functions_[n].n_calls_
          /\ c_functions_'[n].internal_time_ >= c_functions_[n].internal_time_
    ]_vars

\* a callable called twice has merged line counts, internal and external
\* time, and a native callable has a count and a time
C3_Witness ==
  /\ \E c \in DOMAIN functions_ :
       /\ functions_[c].n_calls_ >= 2
       /\ functions_[c].internal_time_ > 0
       /\ \E i \in DOMAIN functions_[c].lines_ :
            /\ functions_[c].lines_[i].n_calls_ > 0
            /\ functions_[c].lines_[i].internal_ > 0
            /\ functions_[c].lines_[i].external_ > 0
  /\ \E n \in DOMAIN c_functions_ :
       c_functions_[n].n_calls_ > 0 /\ c_functions_[n].internal_time_ > 0

\* C4: a frame that was on the call stack with counted lines when stop() ran
\* is never popped, so its line counts and times are never merged into the
\* Registry, whatever start() and events follow.
C4_AbandonedNeverMerged ==
  ~(/\ g_pop.popped
    /\ g_pop.frame.g_stopped
    /\ g_pop.after.lines_ # g_pop.before.lines_)

\* C5: when a frame is popped, its Function's call count is what it was
\* before the frame's Call plus one for that Call plus one for every Call of
\* the same callable begun while the frame was on the stack, and every line
\* record is what it was before that Call plus the frame's own line values
\* plus the line values of the frames of the same callable popped meanwhile:
\* for one recursive activation inside another, two more calls and the exact
\* sum of the two frames.
C5_RecursionAddsBothFrames ==
  g_pop.popped =>
    LET fr == g_pop.frame
        fn == g_pop.functions_after[fr.function_key_]
    IN /\ fn.n_calls_ = fr.g_base.n_calls_ + 1 + fr.g_subn
       /\ \A i \in DOMAIN fr.lines_ :
            /\ fn.lines_[i].n_calls_ =
                 fr.g_base.lines_[i].n_calls_ + fr.g_sub[i].n_calls_
                   + fr.lines_[i].n_calls_
            /\ fn.lines_[i].internal_ =
                 fr.g_base.lines_[i].internal_ + fr.g_sub[i].internal_
                   + fr.lines_[i].internal_
            /\ fn.lines_[i].external_ =
                 fr.g_base.lines_[i].external_ + fr.g_sub[i].external_
                   + fr.lines_[i].external_

\* the outer of two activations of one callable is popped after the inner:
\* both counted lines, and the callable had not been called before
C5_Witness ==
  /\ g_pop.popped
  /\ g_pop.frame.g_subn = 1
  /\ g_pop.frame.g_base.n_calls_ = 0
  /\ g_pop.functions_after[g_pop.frame.function_key_].n_calls_ = 2
  /\ \E i \in DOMAIN g_pop.frame.lines_ : g_pop.frame.g_sub[i].n_calls_ > 0
  /\ \E i \in DOMAIN g_pop.frame.lines_ : g_pop.frame.lines_[i].n_calls_ > 0
  /\ \E i \in DOMAIN g_pop.frame.lines_ : g_pop.frame.lines_[i].external_ > 0

\* C6: when a frame is popped and a caller frame remains, the external time
\* of the caller's current line grows by the popped frame's total line time,
\* and the Registry changes only in the popped frame's own Function.
C6_PopChargesCallerLine ==
  (g_pop.popped /\ g_pop.depth > 1) =>
    LET i == current_line_index(g_pop.caller)
        key == g_pop.frame.function_key_
    IN /\ i < Len(g_pop.caller.lines_)
       /\ g_pop.caller_after.lines_[i + 1].external_ =
            g_pop.caller.lines_[i + 1].external_ + total_time(g_pop.frame)
       /\ DOMAIN g_pop.functions_after = DOMAIN g_pop.functions_before
       /\ \A c \in DOMAIN g_pop.functions_before :
            c # key => g_pop.functions_after[c] = g_pop.functions_before[c]

\* C7: the notification that follows a NativeCall delivered with a frame on
\* the stack adds the measured interval to the native callable's aggregate
\* time and to the external time of the top frame's current line, and a
\* NativeCall that has begun has raised the native callable's count by one.
\* A step delivers a notification when the clock reading taken on entry to
\* Module::profile moves forward.
C7_NativeCallChargedTwice ==
  [][last_instruction_end_' > last_instruction_end_ =>
       /\ (g_prev.kind = "ccall" /\ frame_stack_ # <<>>) =>
            LET n == Len(frame_stack_)
                i == current_line_index(frame_stack_[n])
                d == last_instruction_end_' - last_instruction_start_
            IN /\ c_functions_'[g_prev.name].internal_time_ =
                    c_functions_[g_prev.name].internal_time_ + d
               /\ i < Len(frame_stack_[n].lines_)
               /\ Len(frame_stack_') >= n
               /\ frame_stack_'[n].lines_[i + 1].external_ =
                    frame_stack_[n].lines_[i + 1].external_ + d
       /\ (g_prev'.kind = "ccall" /\ status' = "ok") =>
            c_functions_'[g_prev'.name].n_calls_ =
              (IF g_prev'.name \in DOMAIN c_functions_
                 THEN c_functions_[g_prev'.name].n_calls_ ELSE 0) + 1
    ]_vars

\* C8: when the frame of a callable called once is popped, and no Call or
\* NativeCall began while it was on the stack, each line record holds as
\* call count the number of Line events delivered for that line, as internal
\* time the sum of the intervals that followed those events, and zero
\* external time; the Function's call count is one.
C8_LeafLinesAreExact ==
  (g_pop.popped /\ g_pop.frame.g_clean /\ g_pop.after.n_calls_ = 1) =>
    LET fr == g_pop.frame
    IN \A l \in AllLines :
         LET i == l - Source[fr.function_key_].start - 1
         IN IF i >= 0 /\ i < Len(g_pop.after.lines_)
              THEN /\ g_pop.after.lines_[i + 1].n_calls_ = fr.g_lcnt[l]
                   /\ g_pop.after.lines_[i + 1].internal_ = fr.g_lint[l]
                   /\ g_pop.after.lines_[i + 1].external_ = 0
              ELSE fr.g_lcnt[l] = 0 /\ fr.g_lint[l] = 0

\* a leaf frame is popped after two Line events for one line and one for
\* another
C8_Witness ==
  /\ g_pop.popped
  /\ g_pop.frame.g_clean
  /\ g_pop.after.n_calls_ = 1
  /\ \E l1, l2 \in AllLines :
       /\ l1 # l2
       /\ g_pop.frame.g_lcnt[l1] >= 2
       /\ g_pop.frame.g_lcnt[l2] >= 1
       /\ g_pop.frame.g_lint[l1] >= 3

\* C9: the depth of the call stack is the number of Call events begun minus
\* the number of Return events that a later notification followed.
C9_DepthIsCallsMinusReturns ==
  LET calls == g_begun["f"] + g_begun["g"]
  IN Len(frame_stack_) = calls - g_retf

\* C10: the Registry holds a Function for a callable exactly when a Call for
\* it has begun and a BaseFunction for a native callable exactly when a
\* NativeCall for it has begun; the begun counts never decrease, so an entry
\* is never removed.
C10_EntryIffCallBegun ==
  /\ DOMAIN functions_ = {c \in Codes : g_begun[c] > 0}
  /\ DOMAIN c_functions_ = {n \in CNames : g_cbegun[n] > 0}

\* one callable and one native callable are on record, the other callable is
\* not, after Line, Return and NativeReturn events
C10_Witness ==
  /\ DOMAIN functions_ = {"f"}
  /\ Cardinality(DOMAIN c_functions_) = 1
  /\ g_retf > 0
  /\ last_instruction_ = "kCReturn"

\* C11: a Finish step that looks up a callable that is not in the Registry
\* ends in the error outcome and leaves the Registry as it was: the
\* notification after a Call arrives with a frame whose code has no Function,
\* functions_.at() throws, and no Function or BaseFunction is added or
\* charged.  No step that ends in error adds or removes a Registry entry.
C11_LookupFailureIsError ==
  [][/\ (/\ last_instruction_end_' > last_instruction_end_
         /\ last_instruction_ = "kCall"
         /\ g_prev'.kind = "call"
         /\ g_prev'.code \notin DOMAIN functions_) =>
           /\ status' = "error"
           /\ functions_' = functions_
           /\ c_functions_' = c_functions_
           /\ Len(frame_stack_') = Len(frame_stack_)
     /\ (status = "ok" /\ status' # "ok") =>
           /\ DOMAIN functions_' = DOMAIN functions_
           /\ DOMAIN c_functions_' = DOMAIN c_functions_
    ]_vars

\* the engine has stopped in error on the notification after a Call, which
\* arrived for a callable the Registry does not hold
C11_Witness ==
  /\ status = "error"
  /\ last_instruction_ = "kCall"
  /\ g_prev.kind = "call"
  /\ g_prev.code \notin DOMAIN functions_
  /\ DOMAIN functions_ # {}

\* C12: the notification that follows a Call, when it is processed without
\* error, adds the measured interval to the aggregate time of the callable
\* that Call entered, to no other callable, to no persistent line record and
\* to no frame's line.
C12_CallIntervalToEnteredCallable ==
  [][(/\ last_instruction_end_' > last_instruction_end_
      /\ g_prev.kind = "call"
      /\ status' = "ok") =>
        LET d == last_instruction_end_' - last_instruction_start_
        IN /\ \A c \in DOMAIN functions_ :
                /\ functions_'[c].internal_time_ =
                     functions_[c].internal_time_
                       + (IF c = g_prev.code THEN d ELSE 0)
                /\ \A i \in DOMAIN functions_[c].lines_ :
                     /\ functions_'[c].lines_[i].internal_ =
                          functions_[c].lines_[i].internal_
                     /\ functions_'[c].lines_[i].external_ =
                          functions_[c].lines_[i].external_
           /\ \A c \in DOMAIN functions_' \ DOMAIN functions_ :
                functions_'[c].internal_time_ = 0
           /\ \A n \in DOMAIN c_functions_ :
                c_functions_'[n].internal_time_ = c_functions_[n].internal_time_
           /\ \A k \in 1..Len(frame_stack_) :
                /\ k <= Len(frame_stack_')
                /\ \A i \in DOMAIN frame_stack_[k].lines_ :
                     /\ frame_stack_'[k].lines_[i].internal_ =
                          frame_stack_[k].lines_[i].internal_
                     /\ frame_stack_'[k].lines_[i].external_ =
                          frame_stack_[k].lines_[i].external_
    ]_vars

\* C13: the notification that follows a NativeException attributes the
\* measured interval to nothing: no Function or BaseFunction aggregate, no
\* persistent line record, no frame's overhead and no frame's line time
\* changes, and no frame is popped.
C13_ExceptionIntervalDropped ==
  [][(/\ last_instruction_end_' > last_instruction_end_
      /\ g_prev.kind = "cexception") =>
        /\ \A c \in DOMAIN functions_ :
             /\ functions_'[c].internal_time_ = functions_[c].internal_time_
             /\ \A i \in DOMAIN functions_[c].lines_ :
                  /\ functions_'[c].lines_[i].internal_ =
                       functions_[c].lines_[i].internal_
                  /\ functions_'[c].lines_[i].external_ =
                       functions_[c].lines_[i].external_
        /\ \A n \in DOMAIN c_functions_ :
             c_functions_'[n].internal_time_ = c_functions_[n].internal_time_
        /\ Len(frame_stack_') >= Len(frame_stack_)
        /\ \A k \in 1..Len(frame_stack_) :
             /\ frame_stack_'[k].internal_ = frame_stack_[k].internal_
             /\ \A i \in DOMAIN frame_stack_[k].lines_ :
                  /\ frame_stack_'[k].lines_[i].internal_ =
                       frame_stack_[k].lines_[i].internal_
                  /\ frame_stack_'[k].lines_[i].external_ =
                       frame_stack_[k].lines_[i].external_
    ]_vars

\* C14: wherever a notification reads or sets a frame's current line, the
\* index current line - starting line - 1 lies within the frame's lines: for
\* the top frame in the Finish of a Line and of a NativeCall, for the caller
\* in the pop that the Finish of a Return performs, and for the top frame
\* after the Begin of a Line.
C14_CurrentLineIndexInRange ==
  [][last_instruction_end_' > last_instruction_end_ =>
       LET n == Len(frame_stack_)
           n1 == Len(frame_stack_')
       IN /\ (last_instruction_ \in {"kLine", "kCCall"} /\ n > 0) =>
               current_line_index(frame_stack_[n])
                 < Len(frame_stack_[n].lines_)
          /\ (last_instruction_ = "kReturn" /\ n > 1) =>
               current_line_index(frame_stack_[n - 1])
                 < Len(frame_stack_[n - 1].lines_)
          /\ (g_prev'.kind = "line" /\ n1 > 0) =>
               current_line_index(frame_stack_'[n1])
                 < Len(frame_stack_'[n1].lines_)
    ]_vars

\* C15: a notification finishes the previous event before it begins the new
\* one.  When a Line event follows a Return and a caller remains, the popped
\* frame's total has been added to the external time of the line that was
\* the caller's current line, and only then the caller's cursor is the new
\* line and that line's call count is one more.  When a Call follows a
\* Return, the returning frame has been popped and merged and the frame on
\* top is the fresh frame of the callable the Call entered.
C15_FinishBeforeBegin ==
  (g_pop.popped /\ status = "ok") =>
    LET n == g_pop.depth
    IN /\ (g_prev.kind = "line" /\ n > 1) =>
            LET old == current_line_index(g_pop.caller) + 1
                top == frame_stack_[n - 1]
                new == current_line_index(top) + 1
            IN /\ Len(frame_stack_) = n - 1
               /\ g_pop.caller_after.lines_[old].external_ =
                    g_pop.caller.lines_[old].external_
                      + total_time(g_pop.frame)
               /\ top.current_line_ = g_prev.line
               /\ top.lines_ =
                    [g_pop.caller_after.lines_ EXCEPT ![new].n_calls_ = @ + 1]
       /\ g_prev.kind = "call" =>
            /\ Len(frame_stack_) = n
            /\ frame_stack_[n].function_key_ = g_prev.code
            /\ frame_stack_[n].current_line_ = 0
            /\ frame_stack_[n].internal_ = 0
            /\ \A i \in DOMAIN frame_stack_[n].lines_ :
                 frame_stack_[n].lines_[i] = LineState
            /\ n > 1 => frame_stack_[n - 1].lines_ = g_pop.caller_after.lines_
            /\ functions_[g_pop.frame.function_key_].lines_ =
                 g_pop.after.lines_

\* a Line event has followed a Return: the popped frame's total went to the
\* caller's previous line and the cursor is now on another line
C15_Witness ==
  /\ g_pop.popped
  /\ status = "ok"
  /\ g_prev.kind = "line"
  /\ g_pop.depth > 1
  /\ total_time(g_pop.frame) > 0
  /\ g_pop.caller.current_line_ # g_prev.line

\* C16: when a frame is popped, its overhead accumulator holds the intervals
\* that followed the NativeReturn, NativeException and Return events
\* delivered while it was on top, none of which is in its lines; the
\* Function's aggregate time grows by exactly the accumulator; and the amount
\* added to the caller's current line is the sum of the frame's line times,
\* without the accumulator.
C16_OverheadGoesToAggregateOnly ==
  g_pop.popped =>
    LET fr == g_pop.frame
    IN /\ fr.internal_ = fr.g_ovh
       /\ SumLines(fr.lines_) = fr.g_line
       /\ g_pop.after.internal_time_ =
            g_pop.before.internal_time_ + fr.internal_
       /\ (g_pop.depth > 1 /\ status = "ok") =>
            LET i == current_line_index(g_pop.caller) + 1
            IN g_pop.caller_after.lines_[i].external_ =
                 g_pop.caller.lines_[i].external_ + SumLines(fr.lines_)

\* a frame that made a native call is popped with two or more ticks of
\* overhead, after its NativeReturn and its Return, and with line time
C16_Witness ==
  /\ g_pop.popped
  /\ status = "ok"
  /\ g_pop.frame.g_returned
  /\ g_pop.after.n_calls_ = 1
  /\ DOMAIN functions_ = {g_pop.frame.function_key_}
  /\ \E i \in DOMAIN g_pop.frame.lines_ : g_pop.frame.lines_[i].external_ > 0
  /\ g_pop.frame.internal_ >= 2
  /\ SumLines(g_pop.frame.lines_) > 0
  /\ g_pop.before.internal_time_ > 0

\* C17: the host is asked for a callable's source lines and starting line
\* only by the first Call event of that callable: a step that asks for them
\* is the step that began the callable's first Call.
C17_SourceAskedOnFirstCallOnly ==
  \A c \in g_asked : g_begun[c] = 1

\* the values of one field of line j over the invocations of code c merged
\* so far, added up in an order that does not look at when each was merged
RECURSIVE C18_LineSum(_, _, _, _)
C18_LineSum(S, c, j, field) ==
  IF S = {} THEN 0
  ELSE LET x == CHOOSE x \in S : TRUE
           fr == g_invocations[x].frame
       IN (IF g_invocations[x].at > 0 /\ fr.function_key_ = c
             THEN fr.lines_[j][field] ELSE 0)
          + C18_LineSum(S \ {x}, c, j, field)

RECURSIVE C18_OverheadSum(_, _)
C18_OverheadSum(S, c) ==
  IF S = {} THEN 0
  ELSE LET x == CHOOSE x \in S : TRUE
           fr == g_invocations[x].frame
       IN (IF g_invocations[x].at > 0 /\ fr.function_key_ = c
             THEN fr.internal_ ELSE 0)
          + C18_OverheadSum(S \ {x}, c)

C19_FinishHasFrame ==
  [][(/\ last_instruction_end_' > last_instruction_end_
      /\ last_instruction_ \in {"kReturn", "kCCall", "kCReturn"}) =>
        frame_stack_ # <<>>]_vars

\* C20: a line record of a Function changes only in the notification that
\* follows a Return, whose Finish pops the top frame, and only in the
\* Function of that frame; every other step, start(), stop() and dump()
\* included, leaves every existing line record as it was.
C20_LinesChangeOnlyAtPop ==
  [][\A c \in DOMAIN functions_ :
       functions_'[c].lines_ # functions_[c].lines_ =>
         /\ last_instruction_end_' > last_instruction_end_
         /\ last_instruction_ = "kReturn"
         /\ frame_stack_ # <<>>
         /\ frame_stack_[Len(frame_stack_)].function_key_ = c
    ]_vars

\* a pop has changed line records of a Function after Line events, a native
\* call and its return had left them alone
C20_Witness ==
  /\ g_pop.popped
  /\ g_pop.after.lines_ # g_pop.before.lines_
  /\ \E n \in DOMAIN c_functions_ : c_functions_[n].internal_time_ > 0
  /\ \E i \in DOMAIN g_pop.frame.lines_ :
       /\ g_pop.frame.lines_[i].external_ > 0
       /\ g_pop.frame.lines_[i].internal_ > 0

====
